---------------------------- MODULE Spec2Model ----------------------------
(***************************************************************************)
(* Model of tools/bar/bar_tools.py: the disk-file-system, AWS S3 and       *)
(* media-server adapters of the DSA backup service.  Every mutating        *)
(* disk-file-system operation is a read-modify-write cycle against a       *)
(* replace-only collection endpoint: GET the collection, merge or filter   *)
(* one item by fileSystemPath, POST the whole collection back.             *)
(*                                                                         *)
(* The remote service and the request collaborator (dsa_client) are the    *)
(* environment: a request may raise, or return a response envelope         *)
(* {status, valid, validationlist}.                                        *)
(***************************************************************************)
EXTENDS Integers, Sequences, FiniteSets, TLC

\* ---------------------------------------------------------------- bounds
\* Largest max_files value a caller passes.
MaxFilesBound == 2
\* Longest collection the remote service holds in the initial state.
MaxInitLen == 2
\* Total number of operations started by all callers together.
MaxOps == 2
\* Longest serverValidationList the remote service returns.
MaxErrs == 2
\* Longest collection with repeated paths the remote service holds.
MaxDupLen == 3

\* ------------------------------------------------------------- universes
Callers == {"A", "B"}
Paths == {"/a", "/b", "/c"}
MaxFilesVals == 1..MaxFilesBound

CONFIG_OK == "CONFIG_DISK_FILE_SYSTEM_SUCCESSFUL"
OTHER_STATUS == "OTHER_STATUS"

\* A collection item as the service returns and accepts it.
FileSystem(p, m) == [fileSystemPath |-> p, maxFiles |-> m]
FileSystems == {FileSystem(p, m) : p \in Paths, m \in MaxFilesVals}

SeqsUpTo(S, n) == UNION {[1..k -> S] : k \in 0..n}

KeysOf(coll) == [i \in 1..Len(coll) |-> coll[i].fileSystemPath]
HasKey(coll, p) == \E i \in 1..Len(coll) : coll[i].fileSystemPath = p
CountKey(coll, p) == Cardinality({i \in 1..Len(coll) : coll[i].fileSystemPath = p})
UniqueKeys(coll) ==
    \A i, j \in 1..Len(coll) : coll[i].fileSystemPath = coll[j].fileSystemPath => i = j
Elems(coll) == {coll[i] : i \in 1..Len(coll)}

\* Collections the remote service can hold at start: keys unique, every
\* item registered with maxFiles = 1.
InitCollections ==
    {s \in SeqsUpTo({FileSystem(p, 1) : p \in Paths}, MaxInitLen) : UniqueKeys(s)}

\* ------------------------------------------------------ response envelope
\* Validation messages are numbered; a serverValidationList is <<1, .., n>>.
ErrLists == {[i \in 1..n |-> i] : n \in 0..MaxErrs}
Response(st, v, srv, cli) ==
    [status |-> st, valid |-> v,
     serverValidationList |-> srv, clientValidationList |-> cli]
\* The write is taken: success status, valid = true, nothing to report.
AcceptResponse == Response(CONFIG_OK, TRUE, <<>>, <<>>)
\* The write is refused: valid = false, under either status, with a server
\* list of any length, or with a server and a client list.
RejectResponses ==
    {Response(st, FALSE, srv, <<>>) : st \in {CONFIG_OK, OTHER_STATUS}, srv \in ErrLists}
    \cup {Response(OTHER_STATUS, FALSE, <<1>>, <<100>>)}
WriteResponses == {AcceptResponse} \cup RejectResponses
NoResponse == Response("NONE", FALSE, <<>>, <<>>)
\* The remote service replaces the collection exactly when it answers with
\* the success status and valid = true.
Accepted(resp) == resp.status = CONFIG_OK /\ resp.valid

\* ----------------------------------------------------- pure code fragments
\* config_disk_file_system, the merge loop: replace in place every item whose
\* fileSystemPath equals the argument, keep the others.
ConfigLoop(existing, p, m) ==
    [i \in 1..Len(existing) |->
        IF existing[i].fileSystemPath = p THEN FileSystem(p, m) ELSE existing[i]]

\* Faulty variant: path_exists is never set.
PathExists_NeverSet(existing, p) == FALSE

\* Faulty variant: the flag is set whatever the scan finds.
PathExists_AlwaysSet(existing, p) == TRUE

\* path_exists after the scan (both config and remove).
PathExists(existing, p) ==
    \E i \in 1..Len(existing) : existing[i].fileSystemPath = p

\* Faulty variant: an item already present is left as it is.
Upsert_KeepsOld(existing, p, m) ==
    IF PathExists(existing, p) THEN existing
    ELSE Append(existing, FileSystem(p, m))

\* Faulty variants of the merge, used to show that the properties below
\* depend on it: one forgets the items it does not touch, one moves an updated
\* item to the end, one inserts at the front, one appends without looking.
Upsert_DropsOthers(existing, p, m) == <<FileSystem(p, m)>>
Upsert_MovesToEnd(existing, p, m) ==
    Append(SelectSeq(existing, LAMBDA fs : fs.fileSystemPath # p), FileSystem(p, m))
Upsert_Prepends(existing, p, m) ==
    IF PathExists(existing, p)
    THEN ConfigLoop(existing, p, m)
    ELSE <<FileSystem(p, m)>> \o existing
Upsert_AlwaysAppends(existing, p, m) == Append(existing, FileSystem(p, m))

\* file_systems_to_configure: the merged collection, the new item appended
\* when the scan did not find the path.
Upsert(existing, p, m) ==
    IF PathExists(existing, p)
    THEN ConfigLoop(existing, p, m)
    ELSE Append(ConfigLoop(existing, p, m), FileSystem(p, m))

\* Faulty variant: the filter drops only the first item with the key.
FileSystemsToKeep_DropsOneMatch(existing, p) ==
    IF ~HasKey(existing, p) THEN existing
    ELSE LET i == CHOOSE k \in 1..Len(existing) :
                    /\ existing[k].fileSystemPath = p
                    /\ \A j \in 1..(k - 1) : existing[j].fileSystemPath # p
         IN SubSeq(existing, 1, i - 1) \o SubSeq(existing, i + 1, Len(existing))

\* Faulty variant: the filter drops the first item instead of the matching one.
FileSystemsToKeep_DropsFirst(existing, p) ==
    IF existing = <<>> THEN <<>> ELSE Tail(existing)

\* file_systems_to_keep of remove_disk_file_system.
FileSystemsToKeep(existing, p) ==
    SelectSeq(existing, LAMBDA fs : fs.fileSystemPath # p)

\* available_paths of remove_disk_file_system.
AvailablePaths(existing) ==
    [i \in 1..Len(existing) |-> existing[i].fileSystemPath]

\* ---------------------------------------------------------------- results
\* A returned string, kept as what it says: its headline (kind), the
\* validation message texts it contains, the paths it lists, the reported
\* operation label.
Result(k, ms, ks, o) == [kind |-> k, msgs |-> ms, keys |-> ks, operation |-> o]
NoResult == Result("none", <<>>, <<>>, "-")

\* The validation block printed by the failure branch of the disk operations.
ValidationDetails(resp) == resp.serverValidationList \o resp.clientValidationList

\* Result of config_disk_file_system once the POST has returned.
ConfigResult(resp, exists) ==
    IF resp.status = CONFIG_OK
    THEN Result("success", <<>>, <<>>, IF exists THEN "Update" ELSE "Add")
    ELSE Result("failed", ValidationDetails(resp), <<>>,
                IF exists THEN "Update" ELSE "Add")

\* Result of remove_disk_file_system once the POST has returned.
RemoveResult(resp, keep) ==
    IF resp.status = CONFIG_OK
    THEN Result("success", <<>>, KeysOf(keep), "-")
    ELSE Result("failed", ValidationDetails(resp), <<>>, "-")

\* manage_AWS_S3_backup_configurations, config: the response is printed whole
\* after a completed marker, whatever it holds.
S3ConfigResult(resp) ==
    Result("completed", resp.serverValidationList \o resp.clientValidationList,
           <<>>, "-")

\* _add_media_server once the POST has returned.
AddMediaResult(resp) ==
    IF ~resp.valid
    THEN Result("failed", resp.clientValidationList \o resp.serverValidationList,
                <<>>, "-")
    ELSE Result("success", <<>>, <<>>, "-")

\* --------------------------------------------------------------- dispatch
\* Operation names a caller may pass: every name some management function
\* handles, and one that none does.
OperationNames ==
    {"list", "config", "delete_all", "remove", "get", "add", "delete",
     "list_consumers", "list_consumers_by_server", "bogus"}

\* The other arguments of the management functions; "" and 0 stand for an
\* argument that was not supplied (None, or a value Python treats as false).
Args(id, key, regions, acct, bucket, name, prt, ips) ==
    [accessId |-> id, accessKey |-> key, bucketsByRegion |-> regions,
     acctName |-> acct, bucketName |-> bucket,
     server_name |-> name, port |-> prt, ip_addresses |-> ips]
NoArgs == Args("", "", "", "", "", "", 0, "")

\* What a management function decides before any request: the operation
\* function it calls (call), or the value it returns at once (ret).
CallOp(o) == [call |-> o, ret |-> NoResult]
Return(o, r) == [call |-> o, ret |-> r]
MissingField(f) == Return("none", Result("input_error", <<>>, <<f>>, "-"))
UnknownOperation(names) ==
    Return("none", Result("unknown_operation", <<>>, names, "-"))
NotImplemented == Return("none", Result("not_implemented", <<>>, <<>>, "-"))

\* Faulty variant: the listing leaves out two of the operations handled.
DiskAvailableOperations_Short == <<"list", "config">>

\* Faulty variant: max_files is never found missing.
MaxFilesMissing_Never(m) == FALSE

\* available_operations of manage_dsa_disk_file_systems.
DiskAvailableOperations == <<"list", "config", "delete_all", "remove">>

\* "max_files is None" of manage_dsa_disk_file_systems.
MaxFilesMissing(m) == m = 0

\* manage_dsa_disk_file_systems: the if/elif chain on operation.
DiskDispatch(opn, p, m) ==
    CASE opn = "list" -> CallOp("disk_list")
      [] opn = "config" ->
            IF p = "" THEN MissingField("file_system_path")
            ELSE IF MaxFilesMissing(m) THEN MissingField("max_files")
            ELSE CallOp("disk_config")
      [] opn = "delete_all" -> CallOp("disk_delete_all")
      [] opn = "remove" ->
            IF p = "" THEN MissingField("file_system_path")
            ELSE CallOp("disk_remove")
      [] OTHER -> UnknownOperation(DiskAvailableOperations)

\* Faulty variant: remove is passed on to the configuration request.
S3Remove_Posts == CallOp("s3_config")

\* manage_AWS_S3_backup_configurations, remove and delete_all: placeholders.
S3Remove == NotImplemented
S3DeleteAll == NotImplemented

\* available_operations of manage_AWS_S3_backup_configurations.
S3AvailableOperations == <<"list", "config", "delete_all", "remove">>

\* manage_AWS_S3_backup_configurations: the if/elif chain on operation.
S3Dispatch(opn, a) ==
    CASE opn = "list" -> CallOp("s3_list")
      [] opn = "config" ->
            IF a.accessId = "" THEN MissingField("accessId")
            ELSE IF a.accessKey = "" THEN MissingField("accessKey")
            ELSE IF a.bucketsByRegion = "" THEN MissingField("bucketsByRegion")
            ELSE IF a.acctName = "" THEN MissingField("acctName")
            ELSE IF a.bucketName = "" THEN MissingField("bucketName")
            ELSE CallOp("s3_config")
      [] opn = "delete_all" -> S3DeleteAll
      [] opn = "remove" -> S3Remove
      [] OTHER -> UnknownOperation(S3AvailableOperations)

\* ---------------------------------------------------------- media servers
\* json.loads of the ip_addresses strings a caller may pass: a parse error, or
\* the parsed value with what the checks of _add_media_server look at (whether
\* it is a list, and for each element whether it is a dict and which of the
\* two keys it has).
IpItem(d, ip, mask) == [isDict |-> d, ipAddress |-> ip, netmask |-> mask]
Parsed(ok, l, its) == [ok |-> ok, isList |-> l, items |-> its]
IpAddressInputs == {"", "not json", "[]", "{\"a\": 1}", "[1]",
                    "[{\"ipAddress\": \"i\"}]",
                    "[{\"ipAddress\": \"i\", \"netmask\": \"m\"}]"}
JsonLoads(str) ==
    CASE str = "[]" -> Parsed(TRUE, TRUE, <<>>)
      [] str = "{\"a\": 1}" -> Parsed(TRUE, FALSE, <<IpItem(FALSE, FALSE, FALSE)>>)
      [] str = "[1]" -> Parsed(TRUE, TRUE, <<IpItem(FALSE, FALSE, FALSE)>>)
      [] str = "[{\"ipAddress\": \"i\"}]" ->
            Parsed(TRUE, TRUE, <<IpItem(TRUE, TRUE, FALSE)>>)
      [] str = "[{\"ipAddress\": \"i\", \"netmask\": \"m\"}]" ->
            Parsed(TRUE, TRUE, <<IpItem(TRUE, TRUE, TRUE)>>)
      [] OTHER -> Parsed(FALSE, FALSE, <<>>)

\* str.strip of the server names a caller may pass.
Strip(name) == IF name = " " THEN "" ELSE name

MinPort == 1
MaxPort == 65535

\* Faulty variant: the port range is not checked.
PortInRange_Any(prt) == TRUE

\* "1 <= port <= 65535" of _add_media_server.
PortInRange(prt) == MinPort <= prt /\ prt <= MaxPort

\* The input checks of _add_media_server, in order; NoResult when all pass.
AddValidation(name, prt, ip_list) ==
    IF name = "" \/ Strip(name) = ""
    THEN Result("invalid_input", <<>>, <<"server_name">>, "-")
    ELSE IF ~PortInRange(prt)
    THEN Result("invalid_input", <<>>, <<"port">>, "-")
    ELSE IF ip_list.items = <<>> \/ ~ip_list.isList
    THEN Result("invalid_input", <<>>, <<"ip_list">>, "-")
    ELSE IF \E i \in 1..Len(ip_list.items) :
                \/ ~ip_list.items[i].isDict
                \/ ~ip_list.items[i].ipAddress
                \/ ~ip_list.items[i].netmask
    THEN Result("invalid_input", <<>>, <<"ip_info">>, "-")
    ELSE NoResult

\* payload of _add_media_server.
MediaPayload(name, prt, ip_list) ==
    [serverName |-> Strip(name), port |-> prt, ipInfo |-> ip_list.items]

\* valid_operations of manage_dsa_media_servers.
valid_operations ==
    <<"list", "get", "add", "delete", "list_consumers",
      "list_consumers_by_server">>

\* manage_dsa_media_servers: the membership test, then the if/elif chain,
\* followed for "add" by the input checks of _add_media_server.
MediaDispatch(opn, a) ==
    CASE opn \notin Elems(valid_operations) -> UnknownOperation(valid_operations)
      [] opn = "list" -> CallOp("media_list")
      [] opn = "get" ->
            IF a.server_name = "" THEN MissingField("server_name")
            ELSE CallOp("media_get")
      [] opn = "add" ->
            IF a.server_name = "" THEN MissingField("server_name")
            ELSE IF a.port = 0 THEN MissingField("port")
            ELSE IF a.ip_addresses = "" THEN MissingField("ip_addresses")
            ELSE IF ~JsonLoads(a.ip_addresses).ok
            THEN Return("none", Result("invalid_json", <<>>, <<"ip_addresses">>, "-"))
            ELSE Return("media_add", AddValidation(a.server_name, a.port,
                                                   JsonLoads(a.ip_addresses)))
      [] opn = "delete" ->
            IF a.server_name = "" THEN MissingField("server_name")
            ELSE CallOp("media_delete")
      [] opn = "list_consumers" -> CallOp("media_list_consumers")
      [] opn = "list_consumers_by_server" ->
            IF a.server_name = "" THEN MissingField("server_name")
            ELSE CallOp("media_list_consumers_by_server")

\* The arguments tried with operation name opn: every combination for config
\* and remove, two for the others (they read no argument).
DiskCallInputs(opn, p, m) ==
    \/ opn \in {"config", "remove"}
    \/ (p = "" /\ m = 0)
    \/ (p = "/a" /\ m = 1)

\* Arguments a caller may pass to manage_AWS_S3_backup_configurations: each
\* field supplied or not, two account names.
S3Accounts == {"s1", "s2"}
S3Args ==
    {Args(id, key, regions, acct, bucket, "", 0, "") :
        id \in {"", "id"}, key \in {"", "key"}, regions \in {"", "regions"},
        acct \in S3Accounts \cup {""}, bucket \in {"", "bucket"}}
AllSupplied(a) ==
    /\ a.accessId # "" /\ a.accessKey # "" /\ a.bucketsByRegion # ""
    /\ a.acctName # "" /\ a.bucketName # ""

\* The arguments tried with operation name opn: every combination for the
\* operations the claims about arguments concern, two for the others.
S3CallInputs(opn) ==
    IF opn \in {"config", "remove", "delete_all"} THEN S3Args
    ELSE {a \in S3Args : a = NoArgs \/ (AllSupplied(a) /\ a.acctName = "s1")}

\* configAwsRest of manage_AWS_S3_backup_configurations.
S3Item(a) ==
    [accessId |-> a.accessId, accessKey |-> a.accessKey,
     bucketsByRegion |-> a.bucketsByRegion, bucketName |-> a.bucketName,
     acctName |-> a.acctName]

\* The S3 configuration the service holds at start.
InitS3 == <<S3Item(Args("id", "key", "regions", "s1", "bucket", "", 0, ""))>>

\* What the service holds once it has accepted a configuration: the new
\* one alone, or the new one in place of the one with its account name.
S3AfterAccept(held, item) ==
    {<<item>>,
     SelectSeq(held, LAMBDA x : x.acctName # item.acctName) \o <<item>>}

\* Arguments a caller may pass to manage_dsa_media_servers.
MediaNames == {"ms1", "ms2"}
PortInputs == {0, 80, 70000}
MediaArgs ==
    {Args("", "", "", "", "", name, prt, ips) :
        name \in MediaNames \cup {"", " "}, prt \in PortInputs,
        ips \in IpAddressInputs}
GoodAddArgs(a) ==
    /\ a.server_name \in MediaNames /\ a.port = 80
    /\ a.ip_addresses = "[{\"ipAddress\": \"i\", \"netmask\": \"m\"}]"

\* The arguments tried with operation name opn: every combination for add,
\* every server name for the others (they read no other argument).
MediaCallInputs(opn) ==
    IF opn = "add" THEN MediaArgs
    ELSE {a \in MediaArgs : a.port = 0 /\ a.ip_addresses = ""}

\* The media servers the service holds at start.
InitMedia == {"ms1"}

\* The three management functions.
Entries == {"disk", "s3", "media"}
Dispatch(e, opn, p, m, a) ==
    CASE e = "disk" -> DiskDispatch(opn, p, m)
      [] e = "s3" -> S3Dispatch(opn, a)
      [] e = "media" -> MediaDispatch(opn, a)

\* Where the called function stands after its checks: about to return
\* (d.ret is set), or at the first request of the operation function.
FirstPc(d) ==
    CASE d.ret # NoResult -> "return"
      [] d.call \in {"disk_config", "disk_remove"} -> "fetch"
      [] d.call \in {"s3_config", "media_add"} -> "post"
      [] d.call \in {"disk_delete_all", "media_delete"} -> "delete"
      [] OTHER -> "get"

\* ------------------------------------------------------------------ state
VARIABLES
    remote,        \* the disk-file-system collection held by the service
    pc,            \* per caller: "idle", "fetch", "post", "done"
    op,            \* per caller: the operation being run
    path,          \* per caller: file_system_path
    maxf,          \* per caller: max_files (0 when the operation has none)
    fetchSt,       \* per caller: outcome of the GET: "none","ok","bad","raise"
    existing,      \* per caller: existing_file_systems
    path_exists,   \* per caller: path_exists
    payload,       \* per caller: request_data["fileSystems"]
    postSt,        \* per caller: outcome of the POST: "none","resp","raise"
    response,      \* per caller: the POST's response
    result,        \* per caller: the returned value
    reqs,          \* per caller: methods requested in this operation, in order
    overwritten,   \* per caller c: callers whose accepted write landed after
                   \* c's fetch and before c's own request
    lastConfig,    \* per caller: the item of the caller's previous operation
                   \* when that was a config the service accepted
    remoteAtCall,  \* per caller: the remote collection when the operation began
    nOps,          \* operations started so far
    entry,         \* per caller: the management function called
    operation,     \* per caller: the operation name passed to it
    args,          \* per caller: the other arguments passed to it
    escaped,       \* per caller: an exception left the called function
    remoteS3,      \* the AWS S3 configurations held by the service
    remoteMedia    \* the media servers held by the service

vars == <<remote, pc, op, path, maxf, fetchSt, existing, path_exists, payload,
          postSt, response, result, reqs, overwritten, lastConfig, remoteAtCall,
          nOps, entry, operation, args, escaped, remoteS3, remoteMedia>>

locals == <<op, path, maxf, entry, operation, args>>

DiskOps == {"disk_config", "disk_remove"}
Ops == DiskOps \cup {"s3_config", "media_add", "disk_list", "disk_delete_all",
                     "s3_list", "media_list", "media_get", "media_delete",
                     "media_list_consumers", "media_list_consumers_by_server"}

NoConfig == FileSystem("-", 0)

Init ==
    /\ remote \in InitCollections
    /\ pc = [c \in Callers |-> "idle"]
    /\ op = [c \in Callers |-> "none"]
    /\ path = [c \in Callers |-> "-"]
    /\ maxf = [c \in Callers |-> 0]
    /\ fetchSt = [c \in Callers |-> "none"]
    /\ existing = [c \in Callers |-> <<>>]
    /\ path_exists = [c \in Callers |-> FALSE]
    /\ payload = [c \in Callers |-> <<>>]
    /\ postSt = [c \in Callers |-> "none"]
    /\ response = [c \in Callers |-> NoResponse]
    /\ result = [c \in Callers |-> NoResult]
    /\ reqs = [c \in Callers |-> <<>>]
    /\ overwritten = [c \in Callers |-> {}]
    /\ lastConfig = [c \in Callers |-> NoConfig]
    /\ remoteAtCall = [c \in Callers |-> <<>>]
    /\ nOps = 0
    /\ entry = [c \in Callers |-> "none"]
    /\ operation = [c \in Callers |-> "-"]
    /\ args = [c \in Callers |-> NoArgs]
    /\ escaped = [c \in Callers |-> FALSE]
    /\ remoteS3 = InitS3
    /\ remoteMedia = InitMedia

\* ---------------------------------------------------------------- actions
\* Entry into an operation function: fresh locals.
Enter(c, o, p, m, first) ==
    /\ pc[c] = "idle"
    /\ nOps < MaxOps
    /\ nOps' = nOps + 1
    /\ pc' = [pc EXCEPT ![c] = first]
    /\ op' = [op EXCEPT ![c] = o]
    /\ path' = [path EXCEPT ![c] = p]
    /\ maxf' = [maxf EXCEPT ![c] = m]
    /\ fetchSt' = [fetchSt EXCEPT ![c] = "none"]
    /\ existing' = [existing EXCEPT ![c] = <<>>]
    /\ path_exists' = [path_exists EXCEPT ![c] = FALSE]
    /\ payload' = [payload EXCEPT ![c] = <<>>]
    /\ postSt' = [postSt EXCEPT ![c] = "none"]
    /\ response' = [response EXCEPT ![c] = NoResponse]
    /\ result' = [result EXCEPT ![c] = NoResult]
    /\ reqs' = [reqs EXCEPT ![c] = <<>>]
    /\ overwritten' = [x \in Callers |-> IF x = c THEN {} ELSE overwritten[x] \ {c}]
    /\ remoteAtCall' = [remoteAtCall EXCEPT ![c] = remote]
    /\ UNCHANGED <<remote, lastConfig>>

\* The called function has returned: the caller has its result, the locals
\* of the call are gone.  What stays is what the service holds, and a note of
\* the item just configured when the service accepted it.
Finish(c) ==
    /\ pc[c] = "done"
    /\ pc' = [pc EXCEPT ![c] = "idle"]
    /\ op' = [op EXCEPT ![c] = "none"]
    /\ path' = [path EXCEPT ![c] = "-"]
    /\ maxf' = [maxf EXCEPT ![c] = 0]
    /\ fetchSt' = [fetchSt EXCEPT ![c] = "none"]
    /\ existing' = [existing EXCEPT ![c] = <<>>]
    /\ path_exists' = [path_exists EXCEPT ![c] = FALSE]
    /\ payload' = [payload EXCEPT ![c] = <<>>]
    /\ postSt' = [postSt EXCEPT ![c] = "none"]
    /\ response' = [response EXCEPT ![c] = NoResponse]
    /\ result' = [result EXCEPT ![c] = NoResult]
    /\ reqs' = [reqs EXCEPT ![c] = <<>>]
    /\ operation' = [operation EXCEPT ![c] = "-"]
    /\ args' = [args EXCEPT ![c] = NoArgs]
    /\ escaped' = [escaped EXCEPT ![c] = FALSE]
    /\ remoteAtCall' = [remoteAtCall EXCEPT ![c] = <<>>]
    /\ lastConfig' = [lastConfig EXCEPT ![c] =
                  IF /\ op[c] = "disk_config"
                     /\ postSt[c] = "resp" /\ Accepted(response[c])
                  THEN FileSystem(path[c], maxf[c])
                  ELSE NoConfig]
    /\ UNCHANGED <<remote, overwritten, nOps, remoteS3, remoteMedia, entry>>

\* A call of management function e with operation name opn and arguments
\* (p, m, a); d is what its dispatch (Dispatch) decided.  The function either
\* calls an operation function (d.call) or returns at once (pc "return").
\* A caller keeps to one management function: the three work on three
\* separate endpoints and share no state.
Invoke(c, e, opn, p, m, a, d) ==
    /\ entry[c] \in {"none", e}
    /\ Enter(c, d.call, p, m, FirstPc(d))
    /\ entry' = [entry EXCEPT ![c] = e]
    /\ operation' = [operation EXCEPT ![c] = opn]
    /\ args' = [args EXCEPT ![c] = a]
    /\ escaped' = [escaped EXCEPT ![c] = FALSE]
    /\ UNCHANGED <<remoteS3, remoteMedia>>

\* manage_dsa_disk_file_systems: "config" with both arguments supplied.
CallConfigDisk(c) ==
    /\ pc[c] = "idle"
    /\ \E p \in Paths, m \in MaxFilesVals :
            /\ DiskDispatch("config", p, m).call = "disk_config"
            /\ Invoke(c, "disk", "config", p, m, NoArgs, DiskDispatch("config", p, m))

\* manage_dsa_disk_file_systems: "remove" with a path supplied.
CallRemoveDisk(c) ==
    /\ pc[c] = "idle"
    /\ \E p \in Paths :
            /\ DiskDispatch("remove", p, 0).call = "disk_remove"
            /\ Invoke(c, "disk", "remove", p, 0, NoArgs, DiskDispatch("remove", p, 0))

\* manage_dsa_disk_file_systems: every other call (list, delete_all, an
\* argument left out, an unknown operation name).
CallManageDisk(c) ==
    /\ pc[c] = "idle"
    /\ \E opn \in OperationNames, p \in Paths \cup {""}, m \in MaxFilesVals \cup {0} :
            /\ DiskCallInputs(opn, p, m)
            /\ ~(opn = "config" /\ p # "" /\ m # 0)
            /\ ~(opn = "remove" /\ p # "" /\ m = 0)
            /\ Invoke(c, "disk", opn, p, m, NoArgs, DiskDispatch(opn, p, m))

\* manage_AWS_S3_backup_configurations: "config" with every field supplied.
CallConfigS3(c) ==
    /\ pc[c] = "idle"
    /\ \E a \in S3Args :
            /\ AllSupplied(a)
            /\ Invoke(c, "s3", "config", "-", 0, a, S3Dispatch("config", a))

\* manage_AWS_S3_backup_configurations: every other call.
CallManageS3(c) ==
    /\ pc[c] = "idle"
    /\ \E opn \in OperationNames : \E a \in S3CallInputs(opn) :
            /\ ~(opn = "config" /\ AllSupplied(a))
            /\ Invoke(c, "s3", opn, "-", 0, a, S3Dispatch(opn, a))

\* manage_dsa_media_servers: "add" with inputs that pass every check.
CallAddMedia(c) ==
    /\ pc[c] = "idle"
    /\ \E a \in MediaArgs :
            /\ GoodAddArgs(a)
            /\ Invoke(c, "media", "add", "-", 0, a, MediaDispatch("add", a))

\* manage_dsa_media_servers: every other call.
CallManageMedia(c) ==
    /\ pc[c] = "idle"
    /\ \E opn \in OperationNames : \E a \in MediaCallInputs(opn) :
            /\ ~(opn = "add" /\ GoodAddArgs(a))
            /\ Invoke(c, "media", opn, "-", 0, a, MediaDispatch(opn, a))

\* The called function returns what its checks decided, without a request.
ReturnEarly(c) ==
    /\ pc[c] = "return"
    /\ pc' = [pc EXCEPT ![c] = "done"]
    /\ result' = [result EXCEPT ![c] =
            Dispatch(entry[c], operation[c], path[c], maxf[c], args[c]).ret]
    /\ UNCHANGED <<remote, locals, fetchSt, existing, path_exists, payload,
                   postSt, response, reqs, overwritten, lastConfig,
                   remoteAtCall, nOps, remoteS3, remoteMedia, escaped>>

\* Faulty variant: the listing function lets an exception through.
ExceptionCaught_NotInList(o) == o # "disk_list"

\* Every operation function runs its whole body inside try / except Exception.
ExceptionCaught(o) == TRUE

\* A request, or the reading of its response, raised.
Raised(c) ==
    IF ExceptionCaught(op[c])
    THEN /\ result' = [result EXCEPT ![c] = Result("error", <<>>, <<>>, "-")]
         /\ UNCHANGED escaped
    ELSE /\ escaped' = [escaped EXCEPT ![c] = TRUE]
         /\ UNCHANGED result

FetchOutcomes == {"ok", "bad", "raise"}

\* config_disk_file_system: the GET and the merge that follows it.  A GET
\* that raises, or answers with another status, leaves existing_file_systems
\* empty and the function goes on.
ConfigFetchWith(c, outcomes) ==
    /\ pc[c] = "fetch" /\ op[c] = "disk_config"
    /\ \E st \in outcomes :
        LET ex == IF st = "ok" THEN remote ELSE <<>> IN
        /\ fetchSt' = [fetchSt EXCEPT ![c] = st]
        /\ existing' = [existing EXCEPT ![c] = ex]
        /\ path_exists' = [path_exists EXCEPT ![c] = PathExists(ex, path[c])]
        /\ payload' = [payload EXCEPT ![c] = Upsert(ex, path[c], maxf[c])]
    /\ reqs' = [reqs EXCEPT ![c] = Append(@, "GET")]
    /\ pc' = [pc EXCEPT ![c] = "post"]
    /\ UNCHANGED <<remote, locals, postSt, response, result, overwritten,
                   lastConfig, remoteAtCall, nOps, remoteS3, remoteMedia,
                   escaped>>

\* Faulty variant: only a raised GET aborts the removal.
RemoveFetchAborts_OnlyOnRaise(st) == st = "raise"

\* remove_disk_file_system: the GET raised, or its status is not the
\* listing's success status.
RemoveFetchAborts(st) == st # "ok"

\* remove_disk_file_system: the GET, the filter, and the two early returns.
RemoveFetchWith(c, outcomes) ==
    /\ pc[c] = "fetch" /\ op[c] = "disk_remove"
    /\ reqs' = [reqs EXCEPT ![c] = Append(@, "GET")]
    /\ \E st \in outcomes :
        /\ fetchSt' = [fetchSt EXCEPT ![c] = st]
        /\ IF RemoveFetchAborts(st)
           THEN /\ result' = [result EXCEPT ![c] = Result("fetch_error", <<>>, <<>>, "-")]
                /\ pc' = [pc EXCEPT ![c] = "done"]
                /\ UNCHANGED <<existing, path_exists, payload>>
           ELSE /\ existing' = [existing EXCEPT ![c] = remote]
                /\ path_exists' = [path_exists EXCEPT ![c] = PathExists(remote, path[c])]
                /\ payload' = [payload EXCEPT ![c] = FileSystemsToKeep(remote, path[c])]
                /\ IF PathExists(remote, path[c])
                   THEN /\ pc' = [pc EXCEPT ![c] = "post"]
                        /\ UNCHANGED result
                   ELSE /\ pc' = [pc EXCEPT ![c] = "done"]
                        /\ result' = [result EXCEPT ![c] =
                              Result("not_found", <<>>, AvailablePaths(remote), "-")]
    /\ UNCHANGED <<remote, locals, postSt, response, overwritten, lastConfig,
                   remoteAtCall, nOps, remoteS3, remoteMedia, escaped>>

\* What the running operation of caller c returns for the response of its POST.
FormatResponse(c, resp) ==
    CASE op[c] = "disk_config" -> ConfigResult(resp, path_exists[c])
      [] op[c] = "disk_remove" -> RemoveResult(resp, payload[c])
      [] op[c] = "s3_config" -> S3ConfigResult(resp)
      [] op[c] = "media_add" -> AddMediaResult(resp)

\* Faulty variant: a refused write is sent again.
AfterPost_Retry(resp) == IF Accepted(resp) THEN "done" ELSE "post"

\* Where the function stands once the POST has answered: the answer is
\* formatted and returned, whatever it is.
AfterPost(resp) == "done"

\* The POST of the whole collection and the formatting of its outcome; a
\* raised request is caught by the function's outer handler.
DiskPost(c, resps, mayRaise) ==
    /\ reqs' = [reqs EXCEPT ![c] = Append(@, "POST")]
    /\ \/ /\ mayRaise
          /\ pc' = [pc EXCEPT ![c] = "done"]
          /\ postSt' = [postSt EXCEPT ![c] = "raise"]
          /\ Raised(c)
          /\ UNCHANGED <<remote, response, overwritten>>
       \/ \E resp \in resps :
          /\ pc' = [pc EXCEPT ![c] = AfterPost(resp)]
          /\ postSt' = [postSt EXCEPT ![c] = "resp"]
          /\ response' = [response EXCEPT ![c] = resp]
          /\ result' = [result EXCEPT ![c] = FormatResponse(c, resp)]
          /\ UNCHANGED escaped
          /\ IF Accepted(resp)
             THEN /\ remote' = payload[c]
                  /\ overwritten' =
                        [x \in Callers |->
                            IF x # c /\ pc[x] = "post" /\ op[x] \in DiskOps
                            THEN overwritten[x] \cup {c} ELSE overwritten[x]]
             ELSE UNCHANGED <<remote, overwritten>>
    /\ UNCHANGED <<locals, fetchSt, existing, path_exists, payload, lastConfig,
                   remoteAtCall, nOps, remoteS3, remoteMedia>>

ConfigPostWith(c, resps, mayRaise) ==
    /\ pc[c] = "post" /\ op[c] = "disk_config"
    /\ DiskPost(c, resps, mayRaise)

RemovePostWith(c, resps, mayRaise) ==
    /\ pc[c] = "post" /\ op[c] = "disk_remove"
    /\ DiskPost(c, resps, mayRaise)

\* request_data / payload of the operations that POST one item.
RequestData(c) ==
    CASE op[c] = "s3_config" -> <<S3Item(args[c])>>
      [] op[c] = "media_add" ->
            <<MediaPayload(args[c].server_name, args[c].port,
                           JsonLoads(args[c].ip_addresses))>>

\* A single POST against another endpoint (aws-s3, mediaservers): the disk
\* collection is not touched.
OtherPost(c) ==
    /\ reqs' = [reqs EXCEPT ![c] = Append(@, "POST")]
    /\ pc' = [pc EXCEPT ![c] = "done"]
    /\ payload' = [payload EXCEPT ![c] = RequestData(c)]
    /\ \/ /\ postSt' = [postSt EXCEPT ![c] = "raise"]
          /\ Raised(c)
          /\ UNCHANGED <<response, remoteS3, remoteMedia>>
       \/ \E resp \in WriteResponses :
          /\ postSt' = [postSt EXCEPT ![c] = "resp"]
          /\ response' = [response EXCEPT ![c] = resp]
          /\ result' = [result EXCEPT ![c] = FormatResponse(c, resp)]
          /\ IF ~Accepted(resp) THEN UNCHANGED <<remoteS3, remoteMedia>>
             ELSE IF op[c] = "s3_config"
             THEN /\ remoteS3' \in S3AfterAccept(remoteS3, RequestData(c)[1])
                  /\ UNCHANGED remoteMedia
             ELSE /\ remoteMedia' = remoteMedia \cup {RequestData(c)[1].serverName}
                  /\ UNCHANGED remoteS3
          /\ UNCHANGED escaped
    /\ UNCHANGED <<remote, locals, fetchSt, existing, path_exists,
                   overwritten, lastConfig, remoteAtCall, nOps>>

ConfigS3Post(c) ==
    /\ pc[c] = "post" /\ op[c] = "s3_config"
    /\ OtherPost(c)

AddMediaPost(c) ==
    /\ pc[c] = "post" /\ op[c] = "media_add"
    /\ OtherPost(c)

DELETE_OK == "DELETE_COMPONENT_SUCCESSFUL"

\* What the service may answer to a DELETE.
DeleteResponses ==
    {Response(DELETE_OK, TRUE, <<>>, <<>>)} \cup
    {Response(OTHER_STATUS, FALSE, srv, <<>>) : srv \in ErrLists}

\* Faulty variant: the deletion is sent as a write of the collection.
DeleteMethod_Post == "POST"

\* method of the request of delete_disk_file_systems.
DeleteMethod == "DELETE"

\* Result of delete_disk_file_systems once the request has returned.
DeleteAllResult(resp) ==
    IF resp.status = DELETE_OK
    THEN Result("success", <<>>, <<>>, "-")
    ELSE Result("failed", ValidationDetails(resp), <<>>, "-")

\* delete_disk_file_systems: one request to the collection endpoint,
\* without data.
DiskDeleteAll(c) ==
    /\ pc[c] = "delete" /\ op[c] = "disk_delete_all"
    /\ reqs' = [reqs EXCEPT ![c] = Append(@, DeleteMethod)]
    /\ pc' = [pc EXCEPT ![c] = "done"]
    /\ \/ /\ postSt' = [postSt EXCEPT ![c] = "raise"]
          /\ Raised(c)
          /\ UNCHANGED <<remote, response>>
       \/ \E resp \in DeleteResponses :
          /\ postSt' = [postSt EXCEPT ![c] = "resp"]
          /\ response' = [response EXCEPT ![c] = resp]
          /\ result' = [result EXCEPT ![c] = DeleteAllResult(resp)]
          /\ remote' = IF resp.status = DELETE_OK /\ resp.valid THEN <<>> ELSE remote
          /\ UNCHANGED escaped
    /\ UNCHANGED <<locals, fetchSt, existing, path_exists, payload, overwritten,
                   lastConfig, remoteAtCall, nOps, remoteS3, remoteMedia>>

\* Result of _get_media_server and _delete_media_server once the request
\* has returned.
MediaResult(resp) ==
    IF ~resp.valid
    THEN Result("failed", resp.clientValidationList \o resp.serverValidationList,
                <<>>, "-")
    ELSE Result("success", <<>>, <<>>, "-")

\* _delete_media_server: one DELETE for the named server.
MediaDelete(c) ==
    /\ pc[c] = "delete" /\ op[c] = "media_delete"
    /\ reqs' = [reqs EXCEPT ![c] = Append(@, "DELETE")]
    /\ pc' = [pc EXCEPT ![c] = "done"]
    /\ \/ /\ postSt' = [postSt EXCEPT ![c] = "raise"]
          /\ Raised(c)
          /\ UNCHANGED <<remoteMedia, response>>
       \/ \E resp \in DeleteResponses :
          /\ postSt' = [postSt EXCEPT ![c] = "resp"]
          /\ response' = [response EXCEPT ![c] = resp]
          /\ result' = [result EXCEPT ![c] = MediaResult(resp)]
          /\ remoteMedia' = IF resp.valid THEN remoteMedia \ {args[c].server_name}
                            ELSE remoteMedia
          /\ UNCHANGED escaped
    /\ UNCHANGED <<remote, locals, fetchSt, existing, path_exists, payload,
                   overwritten, lastConfig, remoteAtCall, nOps, remoteS3>>

\* Faulty variant: the read is sent as a write.
ReadMethod_Post == "POST"

\* method of the request of the read-only operation functions.
ReadMethod == "GET"

\* What the service may answer to the GET of one media server: a server it
\* does not hold is never answered as valid.
GetResponses(name, held) ==
    IF name \in held THEN WriteResponses ELSE RejectResponses

\* _get_media_server: one GET for the named server.
MediaGet(c) ==
    /\ pc[c] = "get" /\ op[c] = "media_get"
    /\ reqs' = [reqs EXCEPT ![c] = Append(@, ReadMethod)]
    /\ pc' = [pc EXCEPT ![c] = "done"]
    /\ \/ /\ fetchSt' = [fetchSt EXCEPT ![c] = "raise"]
          /\ Raised(c)
          /\ UNCHANGED response
       \/ \E resp \in GetResponses(args[c].server_name, remoteMedia) :
          /\ fetchSt' = [fetchSt EXCEPT ![c] = IF resp.valid THEN "ok" ELSE "bad"]
          /\ response' = [response EXCEPT ![c] = resp]
          /\ result' = [result EXCEPT ![c] = MediaResult(resp)]
          /\ UNCHANGED escaped
    /\ UNCHANGED <<remote, locals, existing, path_exists, payload, postSt,
                   overwritten, lastConfig, remoteAtCall, nOps, remoteS3,
                   remoteMedia>>

\* The operations that only read: one GET, its outcome formatted.
ListOps == {"disk_list", "s3_list", "media_list", "media_list_consumers",
            "media_list_consumers_by_server"}

\* What a listing operation shows of a successful answer.
Listed(c) ==
    CASE op[c] = "disk_list" -> AvailablePaths(remote)
      [] op[c] = "s3_list" -> [i \in 1..Len(remoteS3) |-> remoteS3[i].acctName]
      [] OTHER -> <<>>

\* list_disk_file_systems, list_aws_s3_backup_configurations,
\* _list_media_servers, _list_media_server_consumers,
\* _list_media_server_consumers_by_name.
ListGet(c) ==
    /\ pc[c] = "get" /\ op[c] \in ListOps
    /\ reqs' = [reqs EXCEPT ![c] = Append(@, ReadMethod)]
    /\ pc' = [pc EXCEPT ![c] = "done"]
    /\ \E st \in FetchOutcomes :
        /\ fetchSt' = [fetchSt EXCEPT ![c] = st]
        /\ CASE st = "raise" -> Raised(c)
             [] st = "ok" ->
                    /\ result' = [result EXCEPT ![c] =
                            Result("listing", <<>>, Listed(c), "-")]
                    /\ UNCHANGED escaped
             [] st = "bad" ->
                    /\ result' = [result EXCEPT ![c] =
                            Result("failed", <<>>, <<>>, "-")]
                    /\ UNCHANGED escaped
    /\ UNCHANGED <<remote, locals, existing, path_exists, payload, postSt,
                   response, overwritten, lastConfig, remoteAtCall, nOps,
                   remoteS3, remoteMedia>>

ConfigFetch(c) == ConfigFetchWith(c, FetchOutcomes)
RemoveFetch(c) == RemoveFetchWith(c, FetchOutcomes)
ConfigPost(c) == ConfigPostWith(c, WriteResponses, TRUE)
RemovePost(c) == RemovePostWith(c, WriteResponses, TRUE)

\* One caller: operations run one after the other, never overlapping, against
\* every behaviour of the request collaborator.
Next ==
    \/ CallConfigDisk("A")
    \/ CallRemoveDisk("A")
    \/ CallManageDisk("A")
    \/ CallConfigS3("A")
    \/ CallManageS3("A")
    \/ CallAddMedia("A")
    \/ CallManageMedia("A")
    \/ ReturnEarly("A")
    \/ ListGet("A")
    \/ DiskDeleteAll("A")
    \/ MediaGet("A")
    \/ MediaDelete("A")
    \/ Finish("A")
    \/ ConfigFetch("A")
    \/ RemoveFetch("A")
    \/ ConfigPost("A")
    \/ RemovePost("A")
    \/ ConfigS3Post("A")
    \/ AddMediaPost("A")

Spec == Init /\ [][Next]_vars

\* Two callers, each running one disk-file-system operation, the two
\* overlapping in every way.  Every fetch succeeds and every write is accepted.
RaceResponses == {AcceptResponse}
RaceCallConfigDisk(c) == pc[c] = "idle" /\ CallConfigDisk(c)
RaceCallRemoveDisk(c) == pc[c] = "idle" /\ CallRemoveDisk(c)
RaceConfigFetch(c) == ConfigFetchWith(c, {"ok"})
RaceRemoveFetch(c) == RemoveFetchWith(c, {"ok"})
RaceConfigPost(c) == ConfigPostWith(c, RaceResponses, FALSE)
RaceRemovePost(c) == RemovePostWith(c, RaceResponses, FALSE)

NextRace ==
    \E c \in Callers :
        \/ RaceCallConfigDisk(c)
        \/ RaceCallRemoveDisk(c)
        \/ RaceConfigFetch(c)
        \/ RaceRemoveFetch(c)
        \/ RaceConfigPost(c)
        \/ RaceRemovePost(c)

SpecRace == Init /\ [][NextRace]_vars

\* Removal from a collection that may hold several items under one path:
\* the service is started with any collection up to MaxDupLen items, and one
\* caller runs one removal against it.
DupCollections == SeqsUpTo(FileSystems, MaxDupLen)

InitDup ==
    /\ remote \in DupCollections
    /\ pc = [c \in Callers |-> "idle"]
    /\ op = [c \in Callers |-> "none"]
    /\ path = [c \in Callers |-> "-"]
    /\ maxf = [c \in Callers |-> 0]
    /\ fetchSt = [c \in Callers |-> "none"]
    /\ existing = [c \in Callers |-> <<>>]
    /\ path_exists = [c \in Callers |-> FALSE]
    /\ payload = [c \in Callers |-> <<>>]
    /\ postSt = [c \in Callers |-> "none"]
    /\ response = [c \in Callers |-> NoResponse]
    /\ result = [c \in Callers |-> NoResult]
    /\ reqs = [c \in Callers |-> <<>>]
    /\ overwritten = [c \in Callers |-> {}]
    /\ lastConfig = [c \in Callers |-> NoConfig]
    /\ remoteAtCall = [c \in Callers |-> <<>>]
    /\ nOps = 0
    /\ entry = [c \in Callers |-> "none"]
    /\ operation = [c \in Callers |-> "-"]
    /\ args = [c \in Callers |-> NoArgs]
    /\ escaped = [c \in Callers |-> FALSE]
    /\ remoteS3 = InitS3
    /\ remoteMedia = InitMedia

DupCallRemoveDisk(c) == nOps = 0 /\ CallRemoveDisk(c)
DupRemoveFetch(c) == RemoveFetchWith(c, FetchOutcomes)
DupRemovePost(c) == RemovePostWith(c, WriteResponses, TRUE)

NextDup ==
    \/ DupCallRemoveDisk("A")
    \/ DupRemoveFetch("A")
    \/ DupRemovePost("A")

SpecDup == InitDup /\ [][NextDup]_vars

\* ------------------------------------------------------------ properties
Methods(c) == {reqs[c][i] : i \in 1..Len(reqs[c])}
NewItem(c) == FileSystem(path[c], maxf[c])
WriteAccepted(c) == postSt[c] = "resp" /\ Accepted(response[c])

\* C1: for config and remove alike, a failed pre-mutation fetch aborts the
\* operation: the fetch error is returned and no POST is issued.
\* (Stated as claimed; config does not satisfy it.)
C1_FetchFailureAborts ==
    \A c \in Callers :
        (pc[c] = "done" /\ op[c] \in DiskOps /\ fetchSt[c] \in {"bad", "raise"})
            => ("POST" \notin Methods(c) /\ result[c].kind = "fetch_error")

\* C2: when caller d's accepted write lands between caller c's fetch and
\* c's own accepted write (both fetched before either wrote), c's replacement
\* is what the service holds afterwards and d's change is gone from it, an
\* item d configured being absent and a path d removed being back, although
\* both operations reported success.
C2_LostUpdate ==
    \A c, d \in Callers :
        (/\ c # d /\ pc[c] = "done" /\ pc[d] = "done"
         /\ d \in overwritten[c] /\ WriteAccepted(c)
         /\ path[c] # path[d])
            => /\ result[c].kind = "success" /\ result[d].kind = "success"
               /\ remote = payload[c]
               /\ (op[d] = "disk_config" /\ NewItem(d) \notin Elems(existing[c]))
                     => NewItem(d) \notin Elems(remote)
               /\ (op[d] = "disk_remove" /\ HasKey(existing[c], path[d]))
                     => HasKey(remote, path[d])

C2_Witness ==
    \E c, d \in Callers :
        /\ c # d /\ pc[c] = "done" /\ pc[d] = "done"
        /\ d \in overwritten[c] /\ WriteAccepted(c) /\ WriteAccepted(d)
        /\ path[c] # path[d]
        /\ op[d] = "disk_config" /\ op[c] = "disk_config"
        /\ NewItem(d) \notin Elems(existing[c])
        /\ NewItem(d) \notin Elems(remote)
        /\ result[c].kind = "success" /\ result[d].kind = "success"

\* C3: a config whose path is in the fetched collection submits a collection
\* of the same length, with the new item at every position that held the
\* path and every other item as it was, where it was.
C3_UpdatePreservesOthers ==
    \A c \in Callers :
        (/\ op[c] = "disk_config" /\ pc[c] = "done" /\ fetchSt[c] = "ok"
         /\ HasKey(existing[c], path[c]))
            => /\ "POST" \in Methods(c)
               /\ Len(payload[c]) = Len(existing[c])
               /\ \A i \in 1..Len(existing[c]) :
                    IF existing[c][i].fileSystemPath = path[c]
                    THEN payload[c][i] = NewItem(c)
                    ELSE payload[c][i] = existing[c][i]

C3_Witness ==
    \E c \in Callers :
        /\ op[c] = "disk_config" /\ pc[c] = "done" /\ fetchSt[c] = "ok"
        /\ Len(existing[c]) >= 2
        /\ existing[c][1].fileSystemPath = path[c]
        /\ existing[c][1] # NewItem(c)
        /\ WriteAccepted(c) /\ remote = payload[c]

\* C4: a config whose path is not in the fetched collection submits the
\* fetched collection, unchanged and in order, followed by the new item.
C4_InsertAppends ==
    \A c \in Callers :
        (/\ op[c] = "disk_config" /\ pc[c] = "done" /\ fetchSt[c] = "ok"
         /\ ~HasKey(existing[c], path[c]))
            => /\ "POST" \in Methods(c)
               /\ Len(payload[c]) = Len(existing[c]) + 1
               /\ SubSeq(payload[c], 1, Len(existing[c])) = existing[c]
               /\ payload[c][Len(payload[c])] = NewItem(c)

C4_Witness ==
    \E c \in Callers :
        /\ op[c] = "disk_config" /\ pc[c] = "done" /\ fetchSt[c] = "ok"
        /\ Len(existing[c]) >= 2 /\ ~HasKey(existing[c], path[c])
        /\ WriteAccepted(c) /\ Len(remote) = Len(existing[c]) + 1

C6_IdempotentUpsert ==
    (/\ pc["A"] = "done" /\ op["A"] = "disk_config" /\ WriteAccepted("A")
     /\ lastConfig["A"] = NewItem("A"))
        => /\ CountKey(remoteAtCall["A"], path["A"]) = 1
           /\ CountKey(remote, path["A"]) = 1
           /\ remote = remoteAtCall["A"]

\* C7: a remove whose path is not in the fetched collection returns the
\* not-found outcome listing the fetched paths, has requested the GET only,
\* and the remote collection is what it was when the operation began.
C7_RemoveNotFound ==
    \A c \in Callers :
        (/\ op[c] = "disk_remove" /\ pc[c] = "done" /\ fetchSt[c] = "ok"
         /\ ~HasKey(existing[c], path[c]))
            => /\ result[c].kind = "not_found"
               /\ result[c].keys = KeysOf(existing[c])
               /\ reqs[c] = <<"GET">>
               /\ remote = remoteAtCall[c]

C7_Witness ==
    \E c \in Callers :
        /\ op[c] = "disk_remove" /\ pc[c] = "done" /\ fetchSt[c] = "ok"
        /\ Len(existing[c]) >= 1 /\ ~HasKey(existing[c], path[c])
        /\ result[c].kind = "not_found"

\* C8: a remove whose path is in the fetched collection requests the GET and
\* then one POST, whose payload is the fetched collection with the item of
\* that path cut out and the rest in order; an accepted write is reported
\* as success and is what the service then holds.
C8_RemoveFound ==
    \A c \in Callers :
        (/\ op[c] = "disk_remove" /\ pc[c] = "done" /\ fetchSt[c] = "ok"
         /\ HasKey(existing[c], path[c]))
            => /\ reqs[c] = <<"GET", "POST">>
               /\ \E k \in 1..Len(existing[c]) :
                    /\ existing[c][k].fileSystemPath = path[c]
                    /\ payload[c] = SubSeq(existing[c], 1, k - 1)
                                      \o SubSeq(existing[c], k + 1, Len(existing[c]))
               /\ WriteAccepted(c) => (result[c].kind = "success" /\ remote = payload[c])

C8_Witness ==
    \E c \in Callers :
        /\ op[c] = "disk_remove" /\ pc[c] = "done" /\ fetchSt[c] = "ok"
        /\ Len(existing[c]) >= 2
        /\ existing[c][2].fileSystemPath = path[c]
        /\ WriteAccepted(c) /\ result[c].kind = "success"
        /\ Len(remote) = Len(existing[c]) - 1

\* C9: every operation reports a failure for a response that carries
\* valid = false, whatever its status.
\* (Stated as claimed; the disk operations and the S3 config go by the status.)
C9_InvalidIsFailure ==
    \A c \in Callers :
        (pc[c] = "done" /\ postSt[c] = "resp" /\ ~response[c].valid)
            => result[c].kind = "failed"

\* C10: a write response with valid = false and a non-empty
\* serverValidationList yields a result that contains the message of every
\* listed error.
\* (Stated as claimed; the disk operations print no list under the success status.)
C10_ValidationSurfaced ==
    \A c \in Callers :
        (/\ pc[c] = "done" /\ postSt[c] = "resp" /\ ~response[c].valid
         /\ Len(response[c].serverValidationList) > 0)
            => \A i \in 1..Len(response[c].serverValidationList) :
                  \E j \in 1..Len(result[c].msgs) :
                      result[c].msgs[j] = response[c].serverValidationList[i]

\* The operation names each management function declares (the "Available
\* Operations" / "Valid values" of its documentation).
DeclaredOperations(e) ==
    CASE e = "disk" -> {"list", "config", "delete_all", "remove"}
      [] e = "s3" -> {"list", "config", "delete_all", "remove"}
      [] e = "media" -> {"list", "get", "add", "delete", "list_consumers",
                         "list_consumers_by_server"}
      [] OTHER -> {}

Called(c) == entry[c] # "none" /\ operation[c] # "-"
Returned(c) == Called(c) /\ pc[c] = "done"

\* C11: a management function called with an operation name outside its
\* declared set returns an error whose listing is exactly the declared names
\* of that function, and makes no request.
C11_UnknownOperation ==
    \A c \in Callers :
        (Returned(c) /\ operation[c] \notin DeclaredOperations(entry[c]))
            => /\ result[c].kind = "unknown_operation"
               /\ Elems(result[c].keys) = DeclaredOperations(entry[c])
               /\ Len(result[c].keys) = Cardinality(DeclaredOperations(entry[c]))
               /\ reqs[c] = <<>>

C11_Witness ==
    \E c \in Callers :
        /\ Returned(c) /\ entry[c] = "disk" /\ operation[c] = "get"
        /\ result[c].kind = "unknown_operation"

\* The fields each operation requires, in the order the function looks at
\* them.
RequiredFields(e, opn) ==
    CASE e = "disk" /\ opn = "config" -> <<"file_system_path", "max_files">>
      [] e = "disk" /\ opn = "remove" -> <<"file_system_path">>
      [] e = "s3" /\ opn = "config" ->
            <<"accessId", "accessKey", "bucketsByRegion", "acctName", "bucketName">>
      [] e = "media" /\ opn \in {"get", "delete", "list_consumers_by_server"} ->
            <<"server_name">>
      [] e = "media" /\ opn = "add" -> <<"server_name", "port", "ip_addresses">>
      [] OTHER -> <<>>

\* The argument the caller passed under field name f.
Supplied(c, f) ==
    CASE f = "file_system_path" -> path[c] # ""
      [] f = "max_files" -> maxf[c] # 0
      [] f = "accessId" -> args[c].accessId # ""
      [] f = "accessKey" -> args[c].accessKey # ""
      [] f = "bucketsByRegion" -> args[c].bucketsByRegion # ""
      [] f = "acctName" -> args[c].acctName # ""
      [] f = "bucketName" -> args[c].bucketName # ""
      [] f = "server_name" -> args[c].server_name # ""
      [] f = "port" -> args[c].port # 0
      [] f = "ip_addresses" -> args[c].ip_addresses # ""

MissingFields(c) ==
    {f \in Elems(RequiredFields(entry[c], operation[c])) : ~Supplied(c, f)}

\* C12: when a field the requested operation requires is missing, the call is
\* rejected with a message that names a missing field (the first one in the
\* order the function checks them) and no request is made.
C12_MissingFieldRejected ==
    \A c \in Callers :
        (Returned(c) /\ MissingFields(c) # {})
            => /\ result[c].kind = "input_error"
               /\ Len(result[c].keys) = 1
               /\ result[c].keys[1] \in MissingFields(c)
               /\ \A i \in 1..Len(RequiredFields(entry[c], operation[c])) :
                     RequiredFields(entry[c], operation[c])[i] = result[c].keys[1]
                        => \A j \in 1..(i - 1) :
                              Supplied(c, RequiredFields(entry[c], operation[c])[j])
               /\ reqs[c] = <<>>

C12_Witness ==
    \E c \in Callers :
        /\ Returned(c) /\ entry[c] = "disk" /\ operation[c] = "config"
        /\ path[c] # "" /\ maxf[c] = 0
        /\ result[c].keys = <<"max_files">>

\* C13: no exception leaves a called function, whatever the arguments and
\* whatever the request does; a call that has ended has returned a value.
C13_NothingPropagates ==
    \A c \in Callers :
        /\ ~escaped[c]
        /\ pc[c] = "done" => result[c] # NoResult

C13_Witness ==
    \E c \in Callers :
        /\ pc[c] = "done" /\ op[c] = "disk_list" /\ fetchSt[c] = "raise"
        /\ result[c].kind = "error"

\* The "success" entry of the metadata the handler of the called function
\* returns: False for an operation name the media-server handler does not
\* know (and in the handler's own except branch), True otherwise.
MetadataSuccess(c) ==
    /\ ~escaped[c]
    /\ ~(entry[c] = "media" /\ operation[c] \notin Elems(valid_operations))

\* Results that report a transport error, an application validation error, a
\* caller input error or an unknown operation name.
FailureKinds ==
    {"error", "fetch_error", "failed", "input_error", "invalid_input",
     "invalid_json", "unknown_operation"}

\* C14: the success flag of the handler's metadata is False whenever the
\* operation ended in a transport error, an application validation error, a
\* caller input error or an unknown operation name.
\* (Stated as claimed; the handlers do not satisfy it.)
C14_FlagReportsFailure ==
    \A c \in Callers :
        (Returned(c) /\ result[c].kind \in FailureKinds) => ~MetadataSuccess(c)

Writes(c) == {i \in 1..Len(reqs[c]) : reqs[c][i] = "POST"}

\* C15: a config, add or remove makes at most two requests, a fetch first and
\* a write last; at most one write; a refused write is not sent again.
C15_AtMostFetchThenWrite ==
    \A c \in Callers :
        op[c] \in {"disk_config", "disk_remove", "s3_config", "media_add"}
            => /\ Len(reqs[c]) <= 2
               /\ Cardinality(Writes(c)) <= 1
               /\ \A i \in 1..Len(reqs[c]) :
                     (reqs[c][i] = "POST" => i = Len(reqs[c]))
                     /\ (reqs[c][i] = "GET" => i = 1)
               /\ (pc[c] = "done" /\ postSt[c] = "resp" /\ ~Accepted(response[c]))
                     => reqs[c][Len(reqs[c])] = "POST"

C15_Witness ==
    \E c \in Callers :
        /\ pc[c] = "done" /\ op[c] = "disk_config"
        /\ postSt[c] = "resp" /\ ~Accepted(response[c])
        /\ reqs[c] = <<"GET", "POST">>

\* C16: a config of an AWS S3 target fetches the S3 collection, merges the
\* item into it by key and submits the merged collection, so that the entries
\* the service holds under other keys are in what is submitted.
\* (Stated as claimed; the function does not satisfy it.)
C16_S3ConfigMerges ==
    \A c \in Callers :
        (pc[c] = "done" /\ op[c] = "s3_config")
            => /\ reqs[c] = <<"GET", "POST">>
               /\ ~WriteAccepted(c) =>
                     \A i \in 1..Len(remoteS3) :
                        remoteS3[i].acctName # args[c].acctName
                            => remoteS3[i] \in Elems(payload[c])

C19_GetNotFound ==
    \A c \in Callers :
        (/\ pc[c] = "done" /\ op[c] = "media_get" /\ fetchSt[c] = "bad"
         /\ args[c].server_name \notin remoteMedia)
            => /\ result[c].kind = "not_found"
               /\ Elems(result[c].keys) = remoteMedia

\* The inputs of an add that pass every local check: a name that is not
\* blank, a port in range, a JSON list with at least one element, every
\* element an object with both keys.
ValidAddInputs(a) ==
    /\ Strip(a.server_name) # ""
    /\ a.port >= MinPort /\ a.port <= MaxPort
    /\ JsonLoads(a.ip_addresses).ok /\ JsonLoads(a.ip_addresses).isList
    /\ JsonLoads(a.ip_addresses).items # <<>>
    /\ \A i \in 1..Len(JsonLoads(a.ip_addresses).items) :
          /\ JsonLoads(a.ip_addresses).items[i].isDict
          /\ JsonLoads(a.ip_addresses).items[i].ipAddress
          /\ JsonLoads(a.ip_addresses).items[i].netmask

\* C20: a media-server add whose inputs pass local validation makes exactly
\* one request, a POST carrying the new server alone, with no fetch before
\* it; an add whose inputs fail local validation makes no request.
C20_AddInsertOnly ==
    \A c \in Callers :
        (Returned(c) /\ entry[c] = "media" /\ operation[c] = "add")
            => IF ValidAddInputs(args[c])
               THEN /\ reqs[c] = <<"POST">>
                    /\ Len(payload[c]) = 1
                    /\ payload[c][1].serverName = Strip(args[c].server_name)
               ELSE reqs[c] = <<>> /\ payload[c] = <<>>

C20_Witness ==
    \E c \in Callers :
        /\ Returned(c) /\ entry[c] = "media" /\ operation[c] = "add"
        /\ ValidAddInputs(args[c])
        /\ reqs[c] = <<"POST">> /\ remoteMedia = {"ms1", "ms2"}

ReadOps == ListOps \cup {"media_get"}

\* C21: a read-only operation (the three lists, media-server get,
\* list_consumers, list_consumers_by_server) makes exactly one request, a
\* GET, and never a write; no step of it changes what the service holds.
C21_ReadOnly ==
    [][\A c \in Callers :
          op'[c] \in ReadOps
              => /\ remote' = remote
                 /\ remoteS3' = remoteS3
                 /\ remoteMedia' = remoteMedia
                 /\ \A i \in 1..Len(reqs'[c]) : reqs'[c][i] = "GET"
                 /\ Len(reqs'[c]) <= 1
                 /\ pc'[c] = "done" => reqs'[c] = <<"GET">>]_vars

C21_Witness ==
    \E c \in Callers :
        /\ pc[c] = "done" /\ op[c] = "media_get" /\ fetchSt[c] = "ok"
        /\ reqs[c] = <<"GET">>

\* C22: with one caller, a disk config removes no key: whatever the outcome,
\* the fetch having failed included, every item the service held before the
\* call under another path is still held after it.
\* (Stated as claimed; config does not satisfy it.)
C22_ConfigRemovesNoKey ==
    \A c \in Callers :
        (pc[c] = "done" /\ op[c] = "disk_config")
            => \A i \in 1..Len(remoteAtCall[c]) :
                  remoteAtCall[c][i].fileSystemPath # path[c]
                      => remoteAtCall[c][i] \in Elems(remote)

\* C23: a removal whose GET raises, or answers with a status other than the
\* listing's success status, makes no write and returns an error; a POST is
\* made only after a successful fetch that held the target path.
C23_RemoveAbortsOnFetchFailure ==
    \A c \in Callers :
        op[c] = "disk_remove"
            => /\ fetchSt[c] \in {"bad", "raise"}
                    => /\ "POST" \notin Methods(c)
                       /\ pc[c] = "done"
                       /\ result[c].kind = "fetch_error"
               /\ "POST" \in Methods(c)
                    => /\ fetchSt[c] = "ok"
                       /\ HasKey(existing[c], path[c])
                       /\ reqs[c] = <<"GET", "POST">>

C23_Witness ==
    \E c \in Callers :
        /\ pc[c] = "done" /\ op[c] = "disk_remove" /\ fetchSt[c] = "bad"
        /\ HasKey(remote, path[c])
        /\ reqs[c] = <<"GET">>

\* The pure function (current collection, intent) -> collection: an upsert
\* replaces in place every item under the path, or appends the item when no
\* item is under it; a removal keeps the items under other paths.
UpsertByKey(current, p, m) ==
    IF \E i \in 1..Len(current) : current[i].fileSystemPath = p
    THEN [i \in 1..Len(current) |->
            IF current[i].fileSystemPath = p THEN FileSystem(p, m) ELSE current[i]]
    ELSE current \o <<FileSystem(p, m)>>
FilterByKey(current, p) ==
    SelectSeq(current, LAMBDA fs : fs.fileSystemPath # p)
Apply(current, o, p, m) ==
    IF o = "disk_config" THEN UpsertByKey(current, p, m)
    ELSE FilterByKey(current, p)

\* C24: operations run one at a time, every fetch and write succeeding: the
\* collection the service holds after a config or a remove is the pure
\* function applied to the collection it held before; a remove of an absent
\* path changes nothing.
C24_RefinesPureFunction ==
    \A c \in Callers :
        (/\ pc[c] = "done" /\ op[c] \in DiskOps /\ fetchSt[c] = "ok"
         /\ (WriteAccepted(c) \/ result[c].kind = "not_found"))
            => /\ remote = Apply(remoteAtCall[c], op[c], path[c], maxf[c])
               /\ result[c].kind = "not_found" => remote = remoteAtCall[c]

C24_Witness ==
    \E c \in Callers :
        /\ pc[c] = "done" /\ op[c] = "disk_config" /\ fetchSt[c] = "ok"
        /\ WriteAccepted(c)
        /\ HasKey(remoteAtCall[c], path[c])
        /\ remote # remoteAtCall[c]
        /\ Len(remote) >= 2

\* C25: a config reports "Update" exactly when an item under the path was in
\* the fetched collection and "Add" otherwise, the fetch having failed (the
\* collection then taken as empty) included.
C25_ReportsUpdateOrAdd ==
    \A c \in Callers :
        (pc[c] = "done" /\ op[c] = "disk_config" /\ postSt[c] = "resp")
            => /\ result[c].operation = "Update" <=> HasKey(existing[c], path[c])
               /\ result[c].operation = "Add" <=> ~HasKey(existing[c], path[c])
               /\ fetchSt[c] # "ok" => result[c].operation = "Add"
               /\ fetchSt[c] = "ok" => existing[c] = remoteAtCall[c]

C25_Witness ==
    \E c \in Callers :
        /\ pc[c] = "done" /\ op[c] = "disk_config" /\ postSt[c] = "resp"
        /\ fetchSt[c] = "bad" /\ HasKey(remoteAtCall[c], path[c])
        /\ result[c].operation = "Add"

Occurrences(coll, fs) == Cardinality({i \in 1..Len(coll) : coll[i] = fs})

\* C26: whenever a removal makes its write, the collection it submits holds
\* no item under the target path, however many the fetched collection held,
\* and holds every item under another path as often as the fetched one did.
C26_FilterDropsEveryMatch ==
    \A c \in Callers :
        (op[c] = "disk_remove" /\ "POST" \in Methods(c))
            => /\ ~HasKey(payload[c], path[c])
               /\ \A fs \in FileSystems :
                     fs.fileSystemPath # path[c]
                        => Occurrences(payload[c], fs) = Occurrences(existing[c], fs)
               /\ Len(payload[c]) = Len(existing[c]) - CountKey(existing[c], path[c])

C26_Witness ==
    \E c \in Callers :
        /\ op[c] = "disk_remove" /\ "POST" \in Methods(c)
        /\ CountKey(existing[c], path[c]) >= 2
        /\ payload[c] # <<>>

TypeOK ==
    /\ remote \in SeqsUpTo(FileSystems, Cardinality(Paths))
    /\ \A c \in Callers :
        /\ pc[c] \in {"idle", "return", "fetch", "get", "post", "delete", "done"}
        /\ op[c] \in Ops \cup {"none"}
        /\ entry[c] \in Entries \cup {"none"}
        /\ operation[c] \in OperationNames \cup {"-"}
        /\ args[c] \in S3Args \cup MediaArgs
        /\ escaped[c] \in BOOLEAN
        /\ fetchSt[c] \in {"none", "ok", "bad", "raise"}
        /\ postSt[c] \in {"none", "resp", "raise"}
        /\ Len(reqs[c]) <= 2
    /\ nOps \in 0..MaxOps
    /\ remoteMedia \subseteq MediaNames
    /\ Len(remoteS3) <= Cardinality(S3Accounts)

=============================================================================
